---------------------------- MODULE Spec2Model ----------------------------
(***************************************************************************)
(* Model of the OCR roster normalizer (src/normalize.py) and of the        *)
(* pipeline that drives it (src/run.py, src/ocr.py, src/to_excel.py).      *)
(* Spec is run_pipeline; SpecNormalize, SpecContact, SpecDepartments,      *)
(* SpecEntry and SpecDocument each call one function of normalize.py on    *)
(* every text of a bounded set.                                            *)
(*                                                                         *)
(* A Python string is a sequence of characters; each character of the      *)
(* source is written here as an ASCII token:                               *)
(*   "0".."9"   ASCII digits            "F0".."F9"  full-width digits ０-９ *)
(*   "ban" 班   "niji" 虹   "c1" ①   "c2" ②   "c3" ③                       *)
(*   "sp" space "nl" line break  "ten" 、  "," comma                        *)
(*   "cho" ー (long-vowel mark)  "ichi" 一  "=" "-" "." "@" "(" ")"         *)
(*   "FL" （  "FR" ）  "FDOT" ．                                            *)
(*   "pe" ペ  "jj" ジ  (the page marker is  === ペ ー ジ <digits> ===)      *)
(*   "a" "n" "u" "l"  ASCII letters,  "kj" a kanji (山),  "hi" a hiragana  *)
(*   and one token for every character of the nine committee names.        *)
(***************************************************************************)
EXTENDS Integers, Sequences, FiniteSets, TLC

VARIABLES
    pc,      \* where the caller stands: "call", "done", or a step of run_pipeline
    text,    \* the string handed to the function called; in run_pipeline the
             \* content of the extracted-text file
    result,  \* what the function returned
    files,   \* the output files that exist (run_pipeline)
    error    \* the step of run_pipeline that raised, "none" before

vars == <<pc, text, result, files, error>>

-----------------------------------------------------------------------------
(* Characters and the character classes the regular expressions use.       *)

fullwidth_digits == <<"F0", "F1", "F2", "F3", "F4", "F5", "F6", "F7", "F8", "F9">>
halfwidth_digits == <<"0", "1", "2", "3", "4", "5", "6", "7", "8", "9">>

Range(f) == {f[i] : i \in DOMAIN f}

\* 事務局 会計 書記 名簿 防犯防災 回覧広報 地域コミュ 環境美化 厚生福祉
DEPARTMENTS ==
    << <<"ji", "mu", "kyoku">>,
       <<"kai", "kei">>,
       <<"sho", "ki">>,
       <<"mei", "bo">>,
       <<"bou", "han", "bou", "sai">>,
       <<"mawa", "ran", "kou", "hou">>,
       <<"chi", "iki", "ko", "mi", "yu">>,
       <<"kan", "kyo", "bi", "ka">>,
       <<"atsu", "sei", "fuku", "shi">> >>

DeptChars == UNION {Range(DEPARTMENTS[i]) : i \in DOMAIN DEPARTMENTS}

\* \d of Python's re on str: every Unicode decimal digit, so ０-９ as well
Digit == Range(halfwidth_digits) \cup Range(fullwidth_digits)

\* \s
Space == {"sp", "nl"}

Circled == {"c1", "c2", "c3"}

Hiragana == {"hi"}

\* \w of Python's re on str: letters, digits and numerics of any script
Word == Digit \cup Circled \cup Hiragana \cup DeptChars
        \cup {"ban", "niji", "cho", "ichi", "pe", "jj", "kj", "a", "n", "u", "l"}

Punct == {"ten", ",", "=", "-", ".", "@", "(", ")", "FL", "FR", "FDOT"}

Char == Word \cup Space \cup Punct

Not(S) == Char \ S

-----------------------------------------------------------------------------
(* Python's re: a pattern is a sequence of items, each a character class    *)
(* with a greedy quantifier; matching backtracks from the longest count.   *)

One(C)       == [cls |-> C, min |-> 1, max |-> 1]
Opt(C)       == [cls |-> C, min |-> 0, max |-> 1]
Rep(C, m, n) == [cls |-> C, min |-> m, max |-> n]
Plus(C)      == [cls |-> C, min |-> 1, max |-> -1]
Star(C)      == [cls |-> C, min |-> 0, max |-> -1]

FAIL == <<0>>

RECURSIVE RunLen(_, _, _, _)
\* how many characters of class C stand at s[pos..], at most cap (cap < 0: no cap)
RunLen(s, pos, C, cap) ==
    IF cap = 0 \/ pos > Len(s) \/ s[pos] \notin C THEN 0
    ELSE 1 + RunLen(s, pos + 1, C, cap - 1)

RECURSIVE MatchFrom(_, _, _, _), TryCount(_, _, _, _, _)
\* the match of items k.. of pattern re at position pos: the position after
\* each item, or FAIL
MatchFrom(re, k, s, pos) ==
    IF k > Len(re) THEN <<>>
    ELSE TryCount(re, k, s, pos, RunLen(s, pos, re[k].cls, re[k].max))

TryCount(re, k, s, pos, c) ==
    IF c < re[k].min THEN FAIL
    ELSE LET r == MatchFrom(re, k + 1, s, pos + c)
         IN  IF r # FAIL THEN <<pos + c>> \o r
             ELSE TryCount(re, k, s, pos, c - 1)

NoMatch == [start |-> 0, ends |-> <<>>]

RECURSIVE Search(_, _, _)
\* re.search from position from: the leftmost match
Search(re, s, from) ==
    IF from > Len(s) THEN NoMatch
    ELSE LET r == MatchFrom(re, 1, s, from)
         IN  IF r # FAIL THEN [start |-> from, ends |-> r]
             ELSE Search(re, s, from + 1)

MEnd(m) == m.ends[Len(m.ends)]

\* m.group(0)
Group0(s, m) == SubSeq(s, m.start, MEnd(m) - 1)

\* the text matched by items i..j of the pattern
GroupOf(s, m, i, j) ==
    SubSeq(s, IF i = 1 THEN m.start ELSE m.ends[i - 1], m.ends[j] - 1)

RECURSIVE FindIter(_, _, _)
\* re.finditer: the non-overlapping matches, left to right
FindIter(re, s, from) ==
    LET m == Search(re, s, from)
    IN  IF m = NoMatch THEN <<>>
        ELSE <<m>> \o FindIter(re, s, MEnd(m))

-----------------------------------------------------------------------------
(* normalize_fullwidth_to_halfwidth                                        *)

\* mutant: the two digit tables misaligned by one
trans_table_shifted(c) ==
    IF \E i \in DOMAIN fullwidth_digits : fullwidth_digits[i] = c
    THEN halfwidth_digits[
            ((CHOOSE i \in DOMAIN fullwidth_digits : fullwidth_digits[i] = c) % 10) + 1]
    ELSE c

\* str.maketrans(fullwidth_digits, halfwidth_digits), applied to one character
trans_table(c) ==
    IF \E i \in DOMAIN fullwidth_digits : fullwidth_digits[i] = c
    THEN halfwidth_digits[CHOOSE i \in DOMAIN fullwidth_digits : fullwidth_digits[i] = c]
    ELSE c

normalize_fullwidth_to_halfwidth(s) == [i \in 1..Len(s) |-> trans_table(s[i])]

-----------------------------------------------------------------------------
(* str and dict operations of Python used by the parsers.                  *)

\* sub in s
Contains(s, sub) ==
    \E i \in 1..(Len(s) - Len(sub) + 1) : SubSeq(s, i, i + Len(sub) - 1) = sub

RECURSIVE LStrip(_, _), RStrip(_, _)
LStrip(s, C) == IF s # <<>> /\ s[1] \in C THEN LStrip(Tail(s), C) ELSE s
RStrip(s, C) ==
    IF s # <<>> /\ s[Len(s)] \in C THEN RStrip(SubSeq(s, 1, Len(s) - 1), C) ELSE s

\* s.strip()
Strip(s) == RStrip(LStrip(s, Space), Space)

RECURSIVE Replace(_, _, _)
\* s.replace(old, new): every non-overlapping occurrence, left to right
Replace(s, old, new) ==
    IF old = <<>> \/ Len(s) < Len(old) THEN s
    ELSE IF SubSeq(s, 1, Len(old)) = old
         THEN new \o Replace(SubSeq(s, Len(old) + 1, Len(s)), old, new)
         ELSE <<s[1]>> \o Replace(Tail(s), old, new)

RECURSIVE Join(_, _)
\* sep.join(parts)
Join(sep, parts) ==
    IF parts = <<>> THEN <<>>
    ELSE IF Len(parts) = 1 THEN parts[1]
         ELSE parts[1] \o sep \o Join(sep, Tail(parts))

\* d.update(e)
Update(d, e) ==
    [k \in DOMAIN d \cup DOMAIN e |-> IF k \in DOMAIN e THEN e[k] ELSE d[k]]

\* d[k] = v
SetItem(d, k, v) == [x \in DOMAIN d \cup {k} |-> IF x = k THEN v ELSE d[x]]

\* the sentinel 'null'
NULL == <<"n", "u", "l", "l">>

\* '、'
DELIM == <<"ten">>

-----------------------------------------------------------------------------
(* parse_departments                                                       *)

\* [^、,\s]
NameChar == Not({"ten", ","} \cup Space)

\* the three pattern families, in the order of the list `patterns`
dept_patterns ==
    << [re |-> <<One(Circled), Star(Space), Plus(NameChar)>>, name |-> 3],
       [re |-> <<One({"1", "2", "3"}), Star(Space), Plus(NameChar)>>, name |-> 3],
       [re |-> <<One(Circled \cup {"1", "2", "3"}), One({".", "FDOT", ")", "FR"}),
                 Star(Space), Plus(NameChar)>>, name |-> 4] >>

priority_map ==
    [p \in {"1", "2", "3", "c1", "c2", "c3"} |->
        CASE p = "1" -> "c1" [] p = "2" -> "c2" [] p = "3" -> "c3" [] OTHER -> p]

\* mutant: the matched marker is stored as it was written
normalized_priority_raw(priority) == priority

\* priority_map.get(priority, priority)
normalized_priority(priority) ==
    IF priority \in DOMAIN priority_map THEN priority_map[priority] ELSE priority

\* mutant: a committee that already has a rank keeps it
AssignFirstDept_keep(res, dept_name, prio) ==
    LET hit == {i \in DOMAIN DEPARTMENTS : Contains(dept_name, DEPARTMENTS[i])}
    IN  IF hit = {} THEN res
        ELSE LET i == CHOOSE i \in hit : \A j \in hit : i <= j
             IN  IF res[DEPARTMENTS[i]] # <<>> THEN res
                 ELSE SetItem(res, DEPARTMENTS[i], <<prio>>)

\* for dept in DEPARTMENTS: if dept in dept_name: result[dept] = ...; break
AssignFirstDept(res, dept_name, prio) ==
    LET hit == {i \in DOMAIN DEPARTMENTS : Contains(dept_name, DEPARTMENTS[i])}
    IN  IF hit = {} THEN res
        ELSE LET i == CHOOSE i \in hit : \A j \in hit : i <= j
             IN  SetItem(res, DEPARTMENTS[i], <<prio>>)

RECURSIVE ApplyMatches(_, _, _, _)
\* for priority, dept_name in matches
ApplyMatches(res, pat, s, ms) ==
    IF ms = <<>> THEN res
    ELSE ApplyMatches(
            AssignFirstDept(res,
                            GroupOf(s, ms[1], pat.name, pat.name),
                            normalized_priority(GroupOf(s, ms[1], 1, 1)[1])),
            pat, s, Tail(ms))

RECURSIVE ApplyPatterns(_, _, _)
\* for pattern in patterns
ApplyPatterns(res, pats, s) ==
    IF pats = <<>> THEN res
    ELSE ApplyPatterns(ApplyMatches(res, pats[1], s, FindIter(pats[1].re, s, 1)),
                       Tail(pats), s)

EmptyDepts == [d \in Range(DEPARTMENTS) |-> <<>>]

parse_departments(dept_text) ==
    IF dept_text = <<>> THEN EmptyDepts
    ELSE ApplyPatterns(EmptyDepts, dept_patterns,
                       normalize_fullwidth_to_halfwidth(dept_text))

-----------------------------------------------------------------------------
(* parse_contact_info                                                      *)

\* [\w\.-]
EmailChar == Word \cup {".", "-"}

\* [\w\.-]+@[\w\.-]+\.\w+
email_pattern ==
    <<Plus(EmailChar), One({"@"}), Plus(EmailChar), One({"."}), Plus(Word)>>

\* [\(（]?\d{2,4}[-ー]\d{2,4}[-ー]\d{4}[\)）]?
contact_tel_pattern ==
    <<Opt({"(", "FL"}), Rep(Digit, 2, 4), One({"-", "cho"}), Rep(Digit, 2, 4),
      One({"-", "cho"}), Rep(Digit, 4, 4), Opt({")", "FR"})>>

\* [、,\s]
SepChar == {"ten", ","} \cup Space

RECURSIVE Groups0(_, _)
\* re.findall of a pattern without groups: the matched texts
Groups0(s, ms) ==
    IF ms = <<>> THEN <<>> ELSE <<Group0(s, ms[1])>> \o Groups0(s, Tail(ms))

RECURSIVE RemoveAll(_, _)
\* for tel in tel_matches: contact_text = contact_text.replace(tel, '')
RemoveAll(s, olds) ==
    IF olds = <<>> THEN s ELSE RemoveAll(Replace(s, olds[1], <<>>), Tail(olds))

RECURSIVE Collapse(_, _, _)
\* re.sub(r'[C]+', new, s): every maximal run of C becomes new
Collapse(s, C, new) ==
    IF s = <<>> THEN <<>>
    ELSE IF s[1] \in C THEN new \o Collapse(LStrip(s, C), C, new)
         ELSE <<s[1]>> \o Collapse(Tail(s), C, new)

OrNull(v) == IF v = <<>> THEN NULL ELSE v

parse_contact_info(contact_text) ==
    IF contact_text = <<>>
    THEN [address |-> <<>>, tel |-> <<>>, email |-> <<>>]
    ELSE
    LET t0 == normalize_fullwidth_to_halfwidth(contact_text)
        email_match == Search(email_pattern, t0, 1)
        email == IF email_match # NoMatch THEN Group0(t0, email_match) ELSE <<>>
        t1 == IF email_match # NoMatch THEN Replace(t0, email, <<>>) ELSE t0
        tel_matches == Groups0(t1, FindIter(contact_tel_pattern, t1, 1))
        tel == Join(DELIM, tel_matches)
        t2 == RemoveAll(t1, tel_matches)
        a0 == Strip(t2)
        a1 == RStrip(LStrip(a0, SepChar), SepChar)
        address == Collapse(a1, SepChar, DELIM)
    IN  [address |-> OrNull(address), tel |-> OrNull(tel), email |-> OrNull(email)]

-----------------------------------------------------------------------------
(* parse_班長_entry                                                        *)

\* the keys of the record: 班 氏名 住所 TEL メールアドレス 補足事項
K_han    == <<"ban">>
K_shimei == <<"uji", "mei">>
K_jusho  == <<"juu", "tokoro">>
K_TEL    == <<"T", "E", "L">>
K_mail   == <<"me", "cho", "ru", "a_", "do", "re", "su">>
K_hosoku == <<"ho", "soku", "ji", "kou_">>

\* mutant: (\d)\s*班, a single digit
han_pattern_one == <<One(Digit), Star(Space), One({"ban"})>>

\* mutant: (\d*)\s*班, the digits optional
han_pattern_star == <<Star(Digit), Star(Space), One({"ban"})>>

\* (\d+)\s*班
han_pattern == <<Plus(Digit), Star(Space), One({"ban"})>>

\* \d+\s*班\s+([^\s]+ ...      the group is item 5; its optional tail
\* (?:\s+[^\s]+)? is name_tail_pattern, tried where item 5 ends
name_pattern ==
    <<Plus(Digit), Star(Space), One({"ban"}), Plus(Space), Plus(Not(Space))>>
name_tail_pattern == <<Plus(Space), Plus(Not(Space))>>

\* [\(（]?\d{2,4}[-ー一=]\d{2,4}[-ー一=]\d{4}[\)）]?
HyphenLike == {"-", "cho", "ichi", "="}
tel_pattern ==
    <<Opt({"(", "FL"}), Rep(Digit, 2, 4), One(HyphenLike), Rep(Digit, 2, 4),
      One(HyphenLike), Rep(Digit, 4, 4), Opt({")", "FR"})>>

\* 虹[^0-9①②③\n]*[0-9０-９一ー=-]+[0-9０-９一ー=-]*[0-9０-９一ー=-]*
AddrTail == Range(halfwidth_digits) \cup Range(fullwidth_digits) \cup HyphenLike
address_pattern ==
    <<One({"niji"}), Star(Not(Range(halfwidth_digits) \cup Circled \cup {"nl"})),
      Plus(AddrTail), Star(AddrTail), Star(AddrTail)>>

\* ③[^①②③\n]+([^\n①②③]+)     \(([^)]+)\)     （([^）]+)）
supplement_patterns ==
    << [re |-> <<One({"c3"}), Plus(Not(Circled \cup {"nl"})),
                 Plus(Not(Circled \cup {"nl"}))>>, group |-> 3],
       [re |-> <<One({"("}), Plus(Not({")"})), One({")"})>>, group |-> 2],
       [re |-> <<One({"FL"}), Plus(Not({"FR"})), One({"FR"})>>, group |-> 2] >>

\* mutant: only the long-vowel mark is replaced
HyphenNormalize_cho(s) == Replace(s, <<"cho">>, <<"-">>)

\* tel.replace('ー', '-').replace('一', '-').replace('=', '-')
HyphenNormalize(s) ==
    Replace(Replace(Replace(s, <<"cho">>, <<"-">>), <<"ichi">>, <<"-">>),
            <<"=">>, <<"-">>)

RECURSIVE TelList(_)
TelList(tels) ==
    IF tels = <<>> THEN <<>>
    ELSE <<HyphenNormalize(tels[1])>> \o TelList(Tail(tels))

\* mutant: the candidate is the first token only
EntryName_one(t) ==
    LET name_match == Search(name_pattern, t, 1)
        name == GroupOf(t, name_match, 5, 5)
    IN  IF name_match = NoMatch THEN <<>>
        ELSE IF \A i \in DOMAIN name : name[i] \in Hiragana \cup Space THEN <<>>
        ELSE name

\* the name of the entry, '' when there is none
EntryName(t) ==
    LET name_match == Search(name_pattern, t, 1)
        tail == IF name_match = NoMatch THEN FAIL
                ELSE MatchFrom(name_tail_pattern, 1, t, MEnd(name_match))
        name == IF tail = FAIL THEN GroupOf(t, name_match, 5, 5)
                ELSE SubSeq(t, name_match.ends[4], tail[Len(tail)] - 1)
    IN  IF name_match = NoMatch THEN <<>>
        \* if not re.match(r'^[ぁ-ん\s]+$', name)
        ELSE IF \A i \in DOMAIN name : name[i] \in Hiragana \cup Space THEN <<>>
        ELSE name

\* the filter of one remark candidate: TRUE when it is appended
KeepSupplement(m) ==
    /\ m # <<>>
    /\ m[1] \notin Circled
    /\ Len(m) > 1
    /\ ~ \E i \in DOMAIN DEPARTMENTS : Contains(m, DEPARTMENTS[i]) /\ Len(m) < 10

RECURSIVE SupplementsOf(_, _, _)
\* for match in matches (of one pattern)
SupplementsOf(t, pat, ms) ==
    IF ms = <<>> THEN <<>>
    ELSE LET m == Strip(GroupOf(t, ms[1], pat.group, pat.group))
         IN  (IF KeepSupplement(m) THEN <<m>> ELSE <<>>)
             \o SupplementsOf(t, pat, Tail(ms))

RECURSIVE Supplements(_, _)
\* for pattern in supplement_patterns
Supplements(t, pats) ==
    IF pats = <<>> THEN <<>>
    ELSE SupplementsOf(t, pats[1], FindIter(pats[1].re, t, 1))
         \o Supplements(t, Tail(pats))

\* the address of the entry, '' when there is none
EntryAddress(t) ==
    LET address_match == Search(address_pattern, t, 1)
    IN  IF address_match = NoMatch THEN <<>>
        ELSE RStrip(HyphenNormalize(
                        normalize_fullwidth_to_halfwidth(Group0(t, address_match))),
                    SepChar)

\* mutant: only the six fields set up first get the sentinel
Finalize_six(res) ==
    [k \in DOMAIN res |->
        IF k \in {K_han, K_shimei, K_jusho, K_TEL, K_mail, K_hosoku}
        THEN OrNull(res[k]) ELSE res[k]]

\* for key in result: if not result[key]: result[key] = 'null'
Finalize(res) == [k \in DOMAIN res |-> OrNull(res[k])]

parse_hancho_entry(entry_text) ==
    LET t == normalize_fullwidth_to_halfwidth(Strip(entry_text))
        match == Search(han_pattern, t, 1)
        email_match == Search(email_pattern, t, 1)
        tel_matches == Groups0(t, FindIter(tel_pattern, t, 1))
        init == [k \in {K_han, K_shimei, K_jusho, K_TEL, K_mail, K_hosoku}
                         \cup Range(DEPARTMENTS) |-> <<>>]
        r1 == SetItem(init, K_han,
                      IF match = NoMatch THEN <<>>
                      ELSE GroupOf(t, match, 1, 1) \o <<"ban">>)
        r2 == SetItem(r1, K_shimei, EntryName(t))
        r3 == SetItem(r2, K_mail,
                      IF email_match = NoMatch THEN <<>> ELSE Group0(t, email_match))
        r4 == SetItem(r3, K_TEL, Join(DELIM, TelList(tel_matches)))
        r5 == SetItem(r4, K_jusho, EntryAddress(t))
        r6 == Update(r5, parse_departments(t))
        r7 == SetItem(r6, K_hosoku, Join(DELIM, Supplements(t, supplement_patterns)))
    IN  Finalize(r7)

-----------------------------------------------------------------------------
(* parse_text_file                                                         *)

\* ===\s*ページ\s*\d+\s*===
page_pattern ==
    <<One({"="}), One({"="}), One({"="}), Star(Space), One({"pe"}), One({"cho"}),
      One({"jj"}), Star(Space), Plus(Digit), Star(Space),
      One({"="}), One({"="}), One({"="})>>

RECURSIVE Split(_, _, _)
\* re.split(pattern, s): the texts between the matches
Split(re, s, from) ==
    LET m == Search(re, s, from)
    IN  IF m = NoMatch THEN <<SubSeq(s, from, Len(s))>>
        ELSE <<SubSeq(s, from, m.start - 1)>> \o Split(re, s, MEnd(m))

\* '\n'.join(pages)
combined_text(doc) == Join(<<"nl">>, Split(page_pattern, doc, 1))

RECURSIVE Entries_to_end(_, _, _)
\* mutant: every span runs to the end of the text
Entries_to_end(combined, matches, i) ==
    IF i > Len(matches) THEN <<>>
    ELSE LET entry_data ==
                parse_hancho_entry(SubSeq(combined, matches[i].start, Len(combined)))
         IN  (IF entry_data[K_han] # NULL THEN <<entry_data>> ELSE <<>>)
             \o Entries_to_end(combined, matches, i + 1)

RECURSIVE Entries(_, _, _)
\* for i, match in enumerate(matches): the entries appended from match i on
Entries(combined, matches, i) ==
    IF i > Len(matches) THEN <<>>
    ELSE LET start_pos == matches[i].start
             end_pos == IF i + 1 <= Len(matches) THEN matches[i + 1].start
                        ELSE Len(combined) + 1
             entry_data == parse_hancho_entry(SubSeq(combined, start_pos, end_pos - 1))
         IN  (IF entry_data[K_han] # NULL THEN <<entry_data>> ELSE <<>>)
             \o Entries(combined, matches, i + 1)

parse_text_file(doc) ==
    LET combined == combined_text(doc)
    IN  Entries(combined, FindIter(han_pattern, combined, 1), 1)

-----------------------------------------------------------------------------
(* The inputs: every concatenation of at most n pieces of a piece set.     *)

RECURSIVE Concats(_, _)
Concats(P, n) ==
    IF n = 0 THEN {<<>>}
    ELSE LET S == Concats(P, n - 1) IN S \cup {s \o p : s \in S, p \in P}

Chars(C) == {<<c>> : c \in C}

MaxNormLen == 3
MaxDeptPieces == 4

NormPieces == Chars({"F0", "F5", "F9", "0", "5", "a", "ban", "cho"})

DeptPieces ==
    Chars({"c1", "c2", "1", "2", "F3", ".", "sp", "ten"})
    \cup {DEPARTMENTS[2], DEPARTMENTS[3]}

MaxEntryPieces == 3
MaxDocPieces == 3

\* 03-1234-5678 written (03=1234ー5678), and a@a.a
TelPiece == <<"(", "0", "3", "=", "1", "2", "3", "4", "cho", "5", "6", "7", "8", ")">>
MailPiece == <<"a", "@", "a", ".", "a">>

EntryPieces ==
    Chars({"1", "2", "ban", "sp", "nl", "kj", "hi", "c3", "(", ")", "niji", "ichi"})
    \cup {DEPARTMENTS[2], TelPiece, MailPiece}

\* === ページ 1 ===
PageMarker ==
    <<"=", "=", "=", "sp", "pe", "cho", "jj", "sp", "1", "sp", "=", "=", "=">>

\* 1班 山   and   1班 a
EntryA == <<"1", "ban", "sp", "kj">>
EntryB == <<"1", "ban", "sp", "a">>

DocPieces ==
    Chars({"1", "F2", "ban", "sp", "nl", "kj", "hi", "c1"})
    \cup {PageMarker, EntryA, EntryB}

MaxContactPieces == 3
MaxPages == 2

\* 044-988-4952
ContactTel == <<"0", "4", "4", "-", "9", "8", "8", "-", "4", "9", "5", "2">>

ContactPieces ==
    Chars({"F1", "0", "-", "cho", "(", ")", "@", ".", "a", "ten", "sp", "niji"})
    \cup {ContactTel, MailPiece}

MaxSplicePieces == 5
MaxNamePieces == 5
MaxAddressPieces == 4

\* (0   and   0-00-0000)   : the two halves of the number (00-00-0000)
TelHead == <<"(", "0">>
TelTail == <<"0", "-", "0", "0", "-", "0", "0", "0", "0", ")">>

\* contact texts in which a number stands inside other claimed text
SplicePieces == Chars({"-", "sp"}) \cup {MailPiece, ContactTel, TelHead, TelTail}

\* 1班
GroupMarker == <<"1", "ban">>

\* entries with name candidates of kanji, hiragana and katakana (ペ)
NamePieces == Chars({"sp", "nl", "kj", "hi", "pe"}) \cup {GroupMarker}

\* entries with addresses: the anchor 虹, text, separators and house numbers
AddressPieces ==
    Chars({"niji", "kj", "ten", "sp", "nl", "1", "F2", "ichi", "cho", "="})

\* what the OCR engine may return for one page
PageTexts == Concats(DocPieces, 1)

Idle == UNCHANGED <<text, files, error>>

-----------------------------------------------------------------------------
(* normalize_fullwidth_to_halfwidth, called on a text and on its own output *)

InitNormalize ==
    /\ pc = "call" /\ text \in Concats(NormPieces, MaxNormLen)
    /\ result = <<>> /\ files = {} /\ error = "none"

CallNormalize ==
    /\ pc = "call"
    /\ result' = <<normalize_fullwidth_to_halfwidth(text)>>
    /\ pc' = "again"
    /\ Idle

CallNormalizeAgain ==
    /\ pc = "again"
    /\ result' = Append(result, normalize_fullwidth_to_halfwidth(result[1]))
    /\ pc' = "done"
    /\ Idle

NextNormalize == CallNormalize \/ CallNormalizeAgain

SpecNormalize == InitNormalize /\ [][NextNormalize]_vars

-----------------------------------------------------------------------------
(* parse_departments                                                       *)

InitDepartments ==
    /\ pc = "call" /\ text \in Concats(DeptPieces, MaxDeptPieces)
    /\ result = <<>> /\ files = {} /\ error = "none"

CallDepartments ==
    /\ pc = "call"
    /\ result' = parse_departments(text)
    /\ pc' = "done"
    /\ Idle

NextDepartments == CallDepartments

SpecDepartments == InitDepartments /\ [][NextDepartments]_vars

-----------------------------------------------------------------------------
(* parse_班長_entry, called on a span                                      *)

InitEntry ==
    /\ pc = "call" /\ text \in Concats(EntryPieces, MaxEntryPieces)
    /\ result = <<>> /\ files = {} /\ error = "none"

CallEntry ==
    /\ pc = "call"
    /\ result' = parse_hancho_entry(text)
    /\ pc' = "done"
    /\ Idle

NextEntry == CallEntry

SpecEntry == InitEntry /\ [][NextEntry]_vars

InitName ==
    /\ pc = "call" /\ text \in Concats(NamePieces, MaxNamePieces)
    /\ result = <<>> /\ files = {} /\ error = "none"

NextName == CallEntry

SpecName == InitName /\ [][NextName]_vars

InitAddress ==
    /\ pc = "call" /\ text \in Concats(AddressPieces, MaxAddressPieces)
    /\ result = <<>> /\ files = {} /\ error = "none"

NextAddress == CallEntry

SpecAddress == InitAddress /\ [][NextAddress]_vars

-----------------------------------------------------------------------------
(* parse_text_file, called on the text of a document                       *)

InitDocument ==
    /\ pc = "call" /\ text \in Concats(DocPieces, MaxDocPieces)
    /\ result = <<>> /\ files = {} /\ error = "none"

CallTextFile ==
    /\ pc = "call"
    /\ result' = parse_text_file(text)
    /\ pc' = "done"
    /\ Idle

NextDocument == CallTextFile

SpecDocument == InitDocument /\ [][NextDocument]_vars

-----------------------------------------------------------------------------
(* parse_contact_info                                                      *)

InitContact ==
    /\ pc = "call" /\ text \in Concats(ContactPieces, MaxContactPieces)
    /\ result = <<>> /\ files = {} /\ error = "none"

CallContact ==
    /\ pc = "call"
    /\ result' = parse_contact_info(text)
    /\ pc' = "done"
    /\ Idle

NextContact == CallContact

SpecContact == InitContact /\ [][NextContact]_vars

InitSplice ==
    /\ pc = "call" /\ text \in Concats(SplicePieces, MaxSplicePieces)
    /\ result = <<>> /\ files = {} /\ error = "none"

NextSplice == CallContact

SpecSplice == InitSplice /\ [][NextSplice]_vars

-----------------------------------------------------------------------------
(* run_pipeline: OCR, normalization, Excel file, CSV file.  The OCR engine, *)
(* the file system and the writers are collaborators: each call of one     *)
(* either returns or raises, and run_pipeline logs what is raised and      *)
(* raises it again; it removes no file.                                    *)

\* f"=== ページ {i} ===\n{text}\n"
PageBlock(i, t) ==
    <<"=", "=", "=", "sp", "pe", "cho", "jj", "sp", halfwidth_digits[i + 1], "sp",
      "=", "=", "=", "nl">> \o t \o <<"nl">>

RECURSIVE PageBlocks(_, _)
PageBlocks(pages, i) ==
    IF i > Len(pages) THEN <<>>
    ELSE <<PageBlock(i, pages[i])>> \o PageBlocks(pages, i + 1)

\* process_pdf: the text saved for the pages of a PDF
process_pdf(pages) == Join(<<"nl">>, PageBlocks(pages, 1))

\* process_image_file: the text saved for an image
process_image_file(page) == page

Raise(step) ==
    /\ pc' = "failed"
    /\ error' = step

Init ==
    /\ pc = "makedirs" /\ text = <<>> /\ result = <<>>
    /\ files = {} /\ error = "none"

\* os.makedirs(output_dir, exist_ok=True)
MakeDirs ==
    /\ pc = "makedirs"
    /\ pc' = "ocr"
    /\ UNCHANGED <<text, result, files, error>>

MakeDirsFails ==
    /\ pc = "makedirs"
    /\ Raise("makedirs")
    /\ UNCHANGED <<text, result, files>>

\* step 1 raises before the text file is opened: the input is missing, the PDF
\* cannot be converted, the OCR engine fails, the file cannot be opened
OcrFails ==
    /\ pc = "ocr"
    /\ Raise("ocr")
    /\ UNCHANGED <<text, result, files>>

\* step 1 raises in f.write: open(output_text_path, 'w') has made the file
OcrWriteFails ==
    /\ pc = "ocr"
    /\ files' = files \cup {"text"}
    /\ Raise("ocr")
    /\ UNCHANGED <<text, result>>

\* step 1, a PDF: ocr.process_pdf saves the text of its pages
OcrPdf ==
    /\ pc = "ocr"
    /\ \E n \in 1..MaxPages : \E pages \in [1..n -> PageTexts] :
          text' = process_pdf(pages)
    /\ files' = files \cup {"text"}
    /\ pc' = "normalize"
    /\ UNCHANGED <<result, error>>

\* step 1, an image: ocr.process_image_file saves the text of the image
OcrImage ==
    /\ pc = "ocr"
    /\ \E page \in PageTexts : text' = process_image_file(page)
    /\ files' = files \cup {"text"}
    /\ pc' = "normalize"
    /\ UNCHANGED <<result, error>>

\* step 2: normalize.parse_text_file(text_file)
Normalize ==
    /\ pc = "normalize"
    /\ result' = parse_text_file(text)
    /\ pc' = "excel"
    /\ UNCHANGED <<text, files, error>>

\* step 2 raises: the text file cannot be read
NormalizeFails ==
    /\ pc = "normalize"
    /\ Raise("normalize")
    /\ UNCHANGED <<text, result, files>>

\* step 3: to_excel.create_excel(data_list, excel_file)
CreateExcel ==
    /\ pc = "excel"
    /\ files' = files \cup {"excel"}
    /\ pc' = "csv"
    /\ UNCHANGED <<text, result, error>>

\* step 3 raises, before wb.save has made the file or in the middle of it
CreateExcelFails ==
    /\ pc = "excel"
    /\ \E made \in BOOLEAN :
          files' = IF made THEN files \cup {"excel"} ELSE files
    /\ Raise("excel")
    /\ UNCHANGED <<text, result>>

\* step 4: to_excel.create_csv(data_list, csv_file)
CreateCsv ==
    /\ pc = "csv"
    /\ files' = files \cup {"csv"}
    /\ pc' = "done"
    /\ UNCHANGED <<text, result, error>>

\* step 4 raises, in open(output_path, 'w') or in a write after it
CreateCsvFails ==
    /\ pc = "csv"
    /\ \E made \in BOOLEAN :
          files' = IF made THEN files \cup {"csv"} ELSE files
    /\ Raise("csv")
    /\ UNCHANGED <<text, result>>

Next ==
    \/ MakeDirs \/ MakeDirsFails
    \/ OcrFails \/ OcrWriteFails \/ OcrPdf \/ OcrImage
    \/ Normalize \/ NormalizeFails
    \/ CreateExcel \/ CreateExcelFails
    \/ CreateCsv \/ CreateCsvFails

Spec == Init /\ [][Next]_vars

-----------------------------------------------------------------------------
(* Properties.                                                             *)

\* the ASCII digit of a full-width digit, written out
AsciiOf(c) ==
    CASE c = "F0" -> "0" [] c = "F1" -> "1" [] c = "F2" -> "2" [] c = "F3" -> "3"
      [] c = "F4" -> "4" [] c = "F5" -> "5" [] c = "F6" -> "6" [] c = "F7" -> "7"
      [] c = "F8" -> "8" [] c = "F9" -> "9" [] OTHER -> c

\* C8: normalize_fullwidth_to_halfwidth maps each full-width digit to its ASCII
\* digit, leaves every other character unchanged, keeps the length, and applied
\* to its own output it returns that output.
C8_NormalizeIdempotent ==
    /\ pc \in {"again", "done"} =>
          /\ Len(result[1]) = Len(text)
          /\ \A i \in 1..Len(text) : result[1][i] = AsciiOf(text[i])
    /\ pc = "done" => result[2] = result[1]

C8_Witness ==
    /\ pc = "done"
    /\ \E i \in 1..Len(text) : text[i] \in Range(fullwidth_digits)
    /\ \E i \in 1..Len(text) : text[i] \notin Digit
    /\ result[1] # text /\ result[2] = result[1]

\* the ranks family k of dept_patterns, applied alone, gives in t
FamilyRanks(k, t) ==
    ApplyMatches(EmptyDepts, dept_patterns[k], t, FindIter(dept_patterns[k].re, t, 1))

\* C7: the rank parse_departments returns for a committee is the rank given by
\* the last family, in the order (a) circled numeral, (b) digit 1-3, (c) marker
\* and punctuation, that assigns the committee at all, wherever the mentions
\* stand in the text: ①会計2会計 and 2会計①会計 both give 会計 the rank ② of
\* family (b); 12.会計 and ①②.会計 give it the rank ② of family (c).
C7_LastFamilyWins ==
    pc = "done" =>
      /\ LET t == normalize_fullwidth_to_halfwidth(text)
             a == FamilyRanks(1, t)
             b == FamilyRanks(2, t)
             c == FamilyRanks(3, t)
         IN  \A d \in Range(DEPARTMENTS) :
                result[d] = IF c[d] # <<>> THEN c[d]
                            ELSE IF b[d] # <<>> THEN b[d]
                            ELSE a[d]
      /\ text \in { <<"c1">> \o DEPARTMENTS[2] \o <<"2">> \o DEPARTMENTS[2],
                    <<"2">> \o DEPARTMENTS[2] \o <<"c1">> \o DEPARTMENTS[2],
                    <<"1", "2", ".">> \o DEPARTMENTS[2],
                    <<"c1", "c2", ".">> \o DEPARTMENTS[2] }
            => result[DEPARTMENTS[2]] = <<"c2">>

\* two families give one committee different ranks, and the later family's
\* mention stands first in the text
C7_Witness ==
    /\ pc = "done"
    /\ text = <<"2">> \o DEPARTMENTS[2] \o <<"c1">> \o DEPARTMENTS[2]
    /\ FamilyRanks(1, text)[DEPARTMENTS[2]] = <<"c1">>
    /\ FamilyRanks(2, text)[DEPARTMENTS[2]] = <<"c2">>
    /\ result[DEPARTMENTS[2]] = <<"c2">>

\* the fifteen fields of a record
RecordKeys ==
    {K_han, K_shimei, K_jusho, K_TEL, K_mail, K_hosoku} \cup Range(DEPARTMENTS)

\* C1: the record parse_班長_entry returns has exactly the fifteen fixed fields,
\* and every field is the sentinel 'null' or a non-empty string.
C1_FieldsNullOrNonEmpty ==
    pc = "done" =>
      /\ DOMAIN result = RecordKeys
      /\ Cardinality(DOMAIN result) = 15
      /\ \A k \in DOMAIN result : result[k] = NULL \/ Len(result[k]) > 0

\* a span with a group marker and a phone number and nothing else: fields that
\* were found beside fields, committee fields among them, that were not
C1_Witness ==
    /\ pc = "done"
    /\ result[K_han] = <<"1", "ban">>
    /\ result[K_TEL] = <<"(", "0", "3", "-", "1", "2", "3", "4", "-", "5", "6", "7", "8", ")">>
    /\ result[K_shimei] = NULL
    /\ result[K_jusho] = NULL
    /\ \A d \in Range(DEPARTMENTS) : result[d] = NULL

\* C2: every committee field of the record is ①, ② or ③ or 'null', never a
\* plain numeral, and the record has no key besides the fifteen fixed ones.
C2_CommitteeValues ==
    pc = "done" =>
      /\ \A d \in Range(DEPARTMENTS) :
            result[d] \in {<<"c1">>, <<"c2">>, <<"c3">>, NULL}
      /\ DOMAIN result \ {K_han, K_shimei, K_jusho, K_TEL, K_mail, K_hosoku}
            = Range(DEPARTMENTS)

\* a rank written as the plain numeral 2 is stored as ②
C2_Witness ==
    /\ pc = "done"
    /\ text = <<"2">> \o DEPARTMENTS[2]
    /\ result[DEPARTMENTS[2]] = <<"c2">>

RECURSIVE UpTo(_, _)
\* the text at the head of s up to a character of C or the end
UpTo(s, C) ==
    IF s = <<>> \/ s[1] \in C THEN <<>> ELSE <<s[1]>> \o UpTo(Tail(s), C)

\* the texts that follow a ③, each up to the next priority marker or line break
AfterThird(s) ==
    {Strip(UpTo(SubSeq(s, i + 1, Len(s)), Circled \cup {"nl"})) :
        i \in {j \in 1..Len(s) : s[j] = "c3"}}

\* C10 (as claimed): the text that follows ③ up to the next priority marker or
\* line break, when longer than 1 character, not starting with a priority marker
\* and not a committee mention shorter than 10 characters, is in 補足事項.
C10_TextAfterThirdInRemarks ==
    pc = "done" =>
      \A m \in AfterThird(Strip(text)) :
         ( /\ Len(m) > 1
           /\ m[1] \notin Circled
           /\ ~ \E i \in DOMAIN DEPARTMENTS :
                   Contains(m, DEPARTMENTS[i]) /\ Len(m) < 10 )
         => Contains(result[K_hosoku], m)

\* a group marker <digits>班 stands at s[i..]: digits up to e, white space, 班
MarkerFrom(s, i, e) ==
    /\ \A x \in i..e : s[x] \in Digit
    /\ \E b \in (e + 1)..Len(s) :
          s[b] = "ban" /\ \A x \in (e + 1)..(b - 1) : s[x] \in Space

\* the places where a group marker starts: the first digit of its digits
MarkerStarts(s) ==
    {i \in 1..Len(s) :
        /\ s[i] \in Digit
        /\ i = 1 \/ s[i - 1] \notin Digit
        /\ \E e \in i..Len(s) : MarkerFrom(s, i, e)}

\* the marker that starts at i, canonicalized: ASCII digits and 班
MarkerId(s, i) ==
    LET e == CHOOSE e \in i..Len(s) : MarkerFrom(s, i, e)
    IN  [x \in 1..(e - i + 1) |-> AsciiOf(s[i + x - 1])] \o <<"ban">>

RECURSIVE Sorted(_)
Sorted(S) ==
    IF S = {} THEN <<>>
    ELSE LET m == CHOOSE x \in S : \A y \in S : x <= y
         IN  <<m>> \o Sorted(S \ {m})

\* C3: the group ids of the records parse_text_file returns are, in order, the
\* group markers of the combined stream from left to right, one record a marker.
C3_GroupIdsAreMarkersInOrder ==
    pc = "done" =>
      LET s == combined_text(text)
          starts == Sorted(MarkerStarts(s))
      IN  /\ Len(result) = Len(starts)
          /\ \A k \in 1..Len(starts) : result[k][K_han] = MarkerId(s, starts[k])

\* two distinct markers, the second with a full-width digit, give two records
C3_Witness ==
    /\ pc = "done"
    /\ text = EntryA \o <<"F2", "ban">>
    /\ Len(result) = 2
    /\ result[1][K_han] = <<"1", "ban">>
    /\ result[2][K_han] = <<"2", "ban">>

\* C4: record k is the record of its own span, the text from marker k up to the
\* next marker (the end of the stream for the last); two markers of one group
\* number give two records, each with the name of its own span.
C4_RecordsFromOwnSpans ==
    pc = "done" =>
      LET s == combined_text(text)
          starts == Sorted(MarkerStarts(s))
          span(k) == SubSeq(s, starts[k],
                            IF k < Len(starts) THEN starts[k + 1] - 1 ELSE Len(s))
      IN  /\ Len(result) = Len(starts)
          /\ \A k \in 1..Len(starts) : result[k] = parse_hancho_entry(span(k))
          /\ text = EntryA \o EntryB =>
                /\ Len(result) = 2
                /\ result[1][K_han] = result[2][K_han]
                /\ result[1][K_shimei] = <<"kj">>
                /\ result[2][K_shimei] = <<"a">>

\* 1班 山1班 a : two records of group 1班, named 山 and a
C4_Witness ==
    /\ pc = "done"
    /\ text = EntryA \o EntryB
    /\ Len(result) = 2
    /\ result[1][K_han] = <<"1", "ban">> /\ result[2][K_han] = <<"1", "ban">>
    /\ result[1][K_shimei] # result[2][K_shimei]

\* C9: a document whose combined stream holds no <digits>班 gives no record.
C9_NoMarkerNoRecords ==
    (pc = "done" /\ MarkerStarts(combined_text(text)) = {}) => result = <<>>

\* a page-break marker, then 班 and a digit the wrong way round
C9_Witness ==
    /\ pc = "done"
    /\ text = PageMarker \o <<"ban", "1">>
    /\ combined_text(text) = <<"nl", "ban", "1">>
    /\ result = <<>>

\* C6 (as claimed): for every input, the empty string included, none of the
\* three results address, tel, email of parse_contact_info is the empty string.
C6_ContactNeverEmpty ==
    pc = "done" =>
      /\ result.address # <<>>
      /\ result.tel # <<>>
      /\ result.email # <<>>

\* the phone numbers of a returned tel value: its parts between the delimiters
ReturnedTels(tel) ==
    IF tel \in {NULL, <<>>} THEN {}
    ELSE LET cuts == {0, Len(tel) + 1} \cup {k \in 1..Len(tel) : tel[k] = "ten"}
         IN  {SubSeq(tel, p[1] + 1, p[2] - 1) :
                p \in {q \in cuts \X cuts :
                         /\ q[1] < q[2]
                         /\ \A k \in cuts : ~(q[1] < k /\ k < q[2])}}

\* C11 (as claimed): for every input of parse_contact_info the returned
\* address contains neither the returned email nor any returned phone number
\* as a substring.
C11_ClaimedTextNotInAddress ==
    pc = "done" =>
      /\ result.email \notin {NULL, <<>>} => ~Contains(result.address, result.email)
      /\ \A t \in ReturnedTels(result.tel) : ~Contains(result.address, t)

Katakana == {"pe", "jj"}

Min(S) == CHOOSE x \in S : \A y \in S : x <= y

\* the positions where a token follows a group marker and whitespace
NameStarts(t) ==
    {c \in 1..Len(t) :
        /\ t[c] \notin Space
        /\ \E b \in 1..(c - 2) :
             /\ t[b] = "ban"
             /\ \A k \in (b + 1)..(c - 1) : t[k] \in Space
             /\ \E d \in 1..(b - 1) :
                  /\ t[d] \in Digit
                  /\ \A k \in (d + 1)..(b - 1) : t[k] \in Space}

\* the last position of the token that starts at i
TokenEnd(t, i) ==
    CHOOSE e \in i..Len(t) :
        /\ \A k \in i..e : t[k] \notin Space
        /\ e = Len(t) \/ t[e + 1] \in Space

\* the one or two whitespace-separated tokens after the first such marker
Candidate(t) ==
    LET c == Min(NameStarts(t))
        e == TokenEnd(t, c)
        more == {g \in (e + 2)..Len(t) : t[g] \notin Space}
    IN  IF more = {} THEN SubSeq(t, c, e) ELSE SubSeq(t, c, TokenEnd(t, Min(more)))

\* the name when candidates made only of the characters P and whitespace
\* are discarded
NameByRule(t, P) ==
    IF NameStarts(t) = {} THEN NULL
    ELSE IF \A i \in DOMAIN Candidate(t) : Candidate(t)[i] \in P \cup Space THEN NULL
    ELSE Candidate(t)

\* C12 (as claimed): the name is the one or two whitespace-separated tokens
\* after the group marker, 'null' whenever that candidate holds only
\* characters of a phonetic syllabary (hiragana or katakana) and whitespace,
\* and the candidate itself otherwise.
C12_NameUnlessSyllabaryOnly ==
    pc = "done" =>
      result[K_shimei] =
        NameByRule(normalize_fullwidth_to_halfwidth(Strip(text)), Hiragana \cup Katakana)

\* C12 (amended): the name is the one or two whitespace-separated tokens
\* after the group marker, 'null' whenever that candidate holds only hiragana
\* (ぁ-ん) and whitespace; a candidate with any other character, katakana
\* included, is kept as the name.
C12_NameUnlessHiraganaOnly ==
    pc = "done" =>
      result[K_shimei] =
        NameByRule(normalize_fullwidth_to_halfwidth(Strip(text)), Hiragana)

\* 1班 ペ ひ : two tokens, kept because of the katakana character
C12_Witness ==
    /\ pc = "done"
    /\ text = GroupMarker \o <<"sp", "pe", "sp", "hi">>
    /\ result[K_shimei] = <<"pe", "sp", "hi">>

\* s with every hyphen-like variant written as the half-width hyphen
Hyphenated(s) == [k \in DOMAIN s |-> IF s[k] \in {"cho", "ichi", "="} THEN "-" ELSE s[k]]

\* C13: the address of a record is 'null', or it begins with 虹, holds no
\* full-width digit, none of ー 一 = (it is a piece of the normalized text
\* with each of them written '-'), holds no line break and does not end with
\* a separator (、 , or whitespace).
C13_AddressForm ==
    pc = "done" =>
      LET a == result[K_jusho]
          t == normalize_fullwidth_to_halfwidth(Strip(text))
      IN  \/ a = NULL
          \/ /\ a # <<>>
             /\ a[1] = "niji"
             /\ Range(a) \cap (Range(fullwidth_digits) \cup {"cho", "ichi", "="}) = {}
             /\ "nl" \notin Range(a)
             /\ a[Len(a)] \notin {"ten", ",", "sp", "nl"}
             /\ \E i \in 1..Len(t), j \in 1..Len(t) : a = Hyphenated(SubSeq(t, i, j))

\* 虹山一２ gives 虹山-2
C13_Witness ==
    /\ pc = "done"
    /\ text = <<"niji", "kj", "ichi", "F2">>
    /\ result[K_jusho] = <<"niji", "kj", "-", "2">>

\* C5 (as claimed): after a run of run_pipeline that failed, no extracted-text
\* file, no Excel file and no CSV file made by that run exists.
C5_FailedRunLeavesNoArtifact ==
    pc = "failed" => files = {}

=============================================================================
